---- MODULE Spec2Model ----
(***************************************************************************)
(* md2htm: the byte-level Markdown to HTML translator MDS::parse of        *)
(* src/src/mdstate.rs as a state machine.  One step consumes one input     *)
(* byte: the byte is classified by the outer match of parse and the arm    *)
(* of its class is applied to the top frame of the state stack and to the  *)
(* output buffer.  EndOfInput is the code after the for loop.              *)
(*                                                                         *)
(* Bytes are the integers 0..255.  The output buffer is a sequence of      *)
(* bytes.  The variable tags is a history variable: the sequence of the    *)
(* HTML tags the code has written, in order, which the byte buffer alone   *)
(* does not tell apart from literal text copied from the input.            *)
(* line_counter and column_counter only feed the diagnostics printed to    *)
(* stdout/stderr and are left out.                                         *)
(*                                                                         *)
(* The daemon of src/src/main.rs is a second specification, SpecDaemon:    *)
(* conns holds one record for each connection the listener hands to a      *)
(* stream_handler thread.  In Spec, which is about one call of parse,      *)
(* there are no connections.                                               *)
(***************************************************************************)
EXTENDS Integers, Sequences, FiniteSets, TLC

VARIABLES feed, input, state_machine, output, tags, pc, conns

vars == <<feed, input, state_machine, output, tags, pc, conns>>

(***************************************************************************)
(* Bounds of the exploration.                                              *)
(***************************************************************************)
\* every input over Alphabet up to this length is explored
MaxLen == 4
\* length of the literal texts in the structured input families
MaxText == 2
\* length of the plain (metacharacter-free) inputs
MaxPlain == 3
\* number of lines in the list inputs
MaxLines == 2
\* length of the request payloads sent to the daemon
MaxPayload == 2
\* length of the longest run of dashes explored (an 8-bit counter holds 255)
MaxDashes == 257
\* length of the longest run of backticks explored (a block closes at the sixth)
MaxTicks == 6

(***************************************************************************)
(* Tag constants, mdstate.rs lines 6-24.                                   *)
(***************************************************************************)
TAG_P_O == <<60, 112, 62>>
TAG_P_C == <<60, 47, 112, 62>>
TAG_CODEB_O == <<60, 100, 105, 118, 32, 99, 108, 97, 115, 115, 61, 34, 99, 111, 100, 101, 34, 62, 60, 99, 111, 100, 101, 32, 99, 108, 97, 115, 115, 61, 34, 99, 111, 100, 101, 34, 62>>
TAG_CODEB_C == <<60, 47, 99, 111, 100, 101, 62, 60, 47, 100, 105, 118, 62>>
TAG_CODEI_O == <<60, 115, 112, 97, 110, 32, 99, 108, 97, 115, 115, 61, 34, 99, 111, 100, 101, 34, 62, 60, 99, 111, 100, 101, 32, 99, 108, 97, 115, 115, 61, 34, 99, 111, 100, 101, 34, 62>>
TAG_CODEI_C == <<60, 47, 99, 111, 100, 101, 62, 60, 47, 115, 112, 97, 110, 62>>
TAG_INT_O == <<60, 100, 105, 118, 32, 99, 108, 97, 115, 115, 61, 34, 105, 110, 116, 101, 110, 100, 34, 62>>
TAG_INT_C == <<60, 47, 100, 105, 118, 62>>
TAG_I_O == <<60, 105, 62>>
TAG_I_C == <<60, 47, 105, 62>>
TAG_B_O == <<60, 98, 62>>
TAG_B_C == <<60, 47, 98, 62>>
TAG_U_O == <<60, 117, 62>>
TAG_U_C == <<60, 47, 117, 62>>
TAG_LI_O == <<60, 108, 105, 62>>
TAG_LI_C == <<60, 47, 108, 105, 62>>
TAG_UL_O == <<60, 117, 108, 62>>
TAG_UL_C == <<60, 47, 117, 108, 62>>
TAG_HR == <<60, 104, 114, 62>>

\* the history name of each tag constant
TagBytes(name) ==
    CASE name = "<p>" -> TAG_P_O
      [] name = "</p>" -> TAG_P_C
      [] name = "<codeb>" -> TAG_CODEB_O
      [] name = "</codeb>" -> TAG_CODEB_C
      [] name = "<codei>" -> TAG_CODEI_O
      [] name = "</codei>" -> TAG_CODEI_C
      [] name = "<int>" -> TAG_INT_O
      [] name = "</int>" -> TAG_INT_C
      [] name = "<i>" -> TAG_I_O
      [] name = "</i>" -> TAG_I_C
      [] name = "<b>" -> TAG_B_O
      [] name = "</b>" -> TAG_B_C
      [] name = "<u>" -> TAG_U_O
      [] name = "</u>" -> TAG_U_C
      [] name = "<li>" -> TAG_LI_O
      [] name = "</li>" -> TAG_LI_C
      [] name = "<ul>" -> TAG_UL_O
      [] name = "</ul>" -> TAG_UL_C
      [] name = "<hr>" -> TAG_HR

(***************************************************************************)
(* The byte classifier: the patterns of the outer match of parse, in the   *)
(* order of the arms.  Rust's a..b excludes b, a..=b includes it.          *)
(***************************************************************************)
IsLiteral(byte) ==
    \/ byte \in 0..9
    \/ byte \in 11..12
    \/ byte \in 14..31
    \/ byte \in 34..34
    \/ byte \in 36..39
    \/ byte \in 43..44
    \/ byte \in 46..90
    \/ byte \in 97..255

Class(byte) ==
    CASE IsLiteral(byte) -> "literal"
      [] byte = 33 -> "!"
      [] byte = 92 -> "backslash"
      [] byte = 35 -> "#"
      [] byte = 32 -> "space"
      [] byte = 91 -> "["
      [] byte = 40 -> "("
      [] byte = 93 -> "]"
      [] byte = 41 -> ")"
      [] byte = 13 \/ byte = 10 -> "newline"
      [] byte = 96 -> "backtick"
      [] byte = 42 -> "*"
      [] byte = 95 -> "_"
      [] byte = 45 -> "-"
      [] OTHER -> "other"

(***************************************************************************)
(* enum State, struct IntenData, struct Linkdata, enum Linkstatus.         *)
(***************************************************************************)
None == [k |-> "None"]
Header(n, p) == [k |-> "Header", n |-> n, p |-> p]
Paragraph == [k |-> "Paragraph"]
Intendation(exp, buf) == [k |-> "Intendation", exp |-> exp, inner |-> buf]
Bold(seen) == [k |-> "Bold", seen |-> seen]
Italic(seen) == [k |-> "Italic", seen |-> seen]
Underscore == [k |-> "Underscore"]
Code(ls, n) == [k |-> "Code", ls |-> ls, n |-> n]
Link(ld) == [k |-> "Link", ld |-> ld]
Exclamation == [k |-> "Exclamation"]
Image(ld) == [k |-> "Image", ld |-> ld]
Escape == [k |-> "Escape"]
UList(seen, written) == [k |-> "UList", seen |-> seen, written |-> written]
LItem == [k |-> "LItem"]
Hor(n) == [k |-> "Hor", n |-> n]

Alt(n) == <<"Alt", n>>
StLink == <<"Link">>
Linkdata(status, alt, link) == [status |-> status, alt |-> alt, link |-> link]

is_alt(ld) == ld.status[1] = "Alt"
is_link(ld) == ld.status[1] = "Link"
alt_expects_closure(ld) == ld.status = Alt(0)
alt_expects_url(ld) == ld.status = Alt(1)

IsLinkOrImage(f) == f.k = "Link" \/ f.k = "Image"

(***************************************************************************)
(* MDS: the linked list current/previous as a sequence, the root state     *)
(* first and the current state last.                                       *)
(***************************************************************************)
\* fall without the previous.is_some() test
fall_unguarded(self) == SubSeq(self, 1, Len(self) - 1)

fall(self) ==
    IF Len(self) > 1 THEN SubSeq(self, 1, Len(self) - 1) ELSE self

rise(self, top) == Append(self, top)

current(self) == self[Len(self)]

is_none(self) == current(self).k = "None"
is_paragraph(self) == current(self).k = "Paragraph"
is_ulist(self) == current(self).k = "UList" /\ current(self).written
is_intend(self) == current(self).k = "Intendation"

(***************************************************************************)
(* The locals of parse an arm works on: m.sm is state_machine, m.out is    *)
(* output, m.tags the history of tags written.                             *)
(***************************************************************************)
Cur(m) == current(m.sm)
Rise(m, top) == [m EXCEPT !.sm = rise(@, top)]
Fall(m) == [m EXCEPT !.sm = fall(@)]
SetCur(m, f) == [m EXCEPT !.sm = [@ EXCEPT ![Len(@)] = f]]
Push(m, byte) == [m EXCEPT !.out = Append(@, byte)]
\* WtiteTo::write of a buffer or of a literal byte string
Write(m, bytes) == [m EXCEPT !.out = @ \o bytes]
\* WtiteTo::write of a tag constant
WriteTag(m, name) ==
    [m EXCEPT !.out = @ \o TagBytes(name), !.tags = Append(@, name)]
\* <hN> and </hN>, written byte by byte with the level digit n + 48
HName(n, open) == (IF open THEN "<h" ELSE "</h") \o ToString(n) \o ">"
WriteHOpen(m, n) ==
    [m EXCEPT !.out = @ \o <<60, 104, (n + 48) % 256, 62>>,
              !.tags = Append(@, HName(n, TRUE))]
WriteHClose(m, n) ==
    [m EXCEPT !.out = @ \o <<60, 47, 104>> \o <<(n + 48) % 256, 62>>,
              !.tags = Append(@, HName(n, FALSE))]
\* the raw text of a link given up: [alt](link
WriteRawLink(m, ld) ==
    Write(Push(Push(Write(Push(m, 91), ld.alt), 93), 40), ld.link)
\* <a href="link">alt</a>
WriteAnchor(m, ld) ==
    LET m1 == Write(m, <<60, 97, 32, 104, 114, 101, 102, 61, 34>>)
        m2 == Write(m1, ld.link)
        m3 == Write(m2, <<34, 62>>)
        m4 == Write(m3, ld.alt)
        m5 == Write(m4, <<60, 47, 97, 62>>)
    IN  [m5 EXCEPT !.tags = @ \o <<"<a>", "</a>">>]
\* <img src="link" alt="alt">
WriteImg(m, ld) ==
    LET m1 == Write(m, <<60, 105, 109, 103, 32, 115, 114, 99, 61, 34>>)
        m2 == Write(m1, ld.link)
        m3 == Write(m2, <<34, 32, 97, 108, 116, 61, 34>>)
        m4 == Write(m3, ld.alt)
        m5 == Write(m4, <<34, 62>>)
    IN  [m5 EXCEPT !.tags = Append(@, "<img>")]
\* "Close intend div tag": TAG_INT_C, then the buffer of the Intendation
CloseIntend(m) == Write(WriteTag(m, "</int>"), Cur(m).inner)

(***************************************************************************)
(* Arm 0..10 | 11..13 | ... | 97..=255 (lines 159-297)                     *)
(***************************************************************************)
LiteralArm(m, byte) ==
    LET c == Cur(m) IN
    CASE c.k = "None" ->
           Push(WriteTag(Rise(m, Paragraph), "<p>"), byte)
      [] c.k = "Code" ->
           LET m1 == IF c.ls
                     THEN CASE c.n = 1 -> WriteTag(SetCur(m, Code(FALSE, c.n)), "<codei>")
                            [] c.n = 3 -> WriteTag(SetCur(m, Code(FALSE, c.n)), "<codeb>")
                            [] OTHER -> Fall(m)
                     ELSE m
           IN  Push(m1, byte)
      [] c.k = "Escape" ->
           Fall(CASE byte = 60 -> Write(m, <<38, 108, 116, 59>>)
                  [] byte = 62 -> Write(m, <<38, 103, 116, 59>>)
                  [] OTHER -> Push(m, byte))
      [] c.k = "Exclamation" ->
           Fall(Push(Push(m, 33), byte))
      [] IsLinkOrImage(c) ->
           CASE c.ld.status = Alt(0) ->
                  SetCur(m, [c EXCEPT !.ld.alt = Append(@, byte)])
             [] c.ld.status = Alt(1) ->
                  Fall(Push(Push(Write(Push(m, 91), c.ld.alt), 93), byte))
             [] c.ld.status = StLink ->
                  SetCur(m, [c EXCEPT !.ld.link = Append(@, byte)])
             [] OTHER -> m
      [] c.k = "Intendation" ->
           LET m1 == IF c.exp
                     THEN Fall(CloseIntend(m))
                     ELSE SetCur(Write(m, c.inner), Intendation(c.exp, <<>>))
           IN  Rise(Push(WriteTag(m1, "<p>"), byte), Paragraph)
      [] c.k = "Italic" ->
           Push(IF c.seen THEN SetCur(WriteTag(m, "<i>"), Italic(FALSE)) ELSE m, byte)
      [] c.k = "Bold" ->
           Push(IF c.seen THEN SetCur(Push(m, 42), Bold(FALSE)) ELSE m, byte)
      [] c.k = "UList" ->
           LET m1 == IF c.written THEN WriteTag(m, "</ul>") ELSE m
               m2 == Fall(Fall(WriteTag(m1, "</p>")))
               m3 == IF Cur(m2).k = "Intendation" THEN Fall(CloseIntend(m2)) ELSE m2
           IN  Rise(Push(WriteTag(m3, "<p>"), byte), Paragraph)
      [] OTHER -> Push(m, byte)

(***************************************************************************)
(* Arm b'!' (lines 299-323)                                                *)
(***************************************************************************)
ExclamationArm(m, byte) ==
    LET c == Cur(m) IN
    CASE c.k = "Escape" -> Fall(Push(m, byte))
      [] c.k = "Exclamation" \/ IsLinkOrImage(c) \/ c.k = "Code" -> Push(m, byte)
      [] c.k = "Intendation" ->
           Rise(IF c.exp THEN Fall(CloseIntend(m)) ELSE m, Exclamation)
      [] OTHER -> Rise(m, Exclamation)

(***************************************************************************)
(* Arm b'\\' (lines 325-337)                                               *)
(***************************************************************************)
BackslashArm(m, byte) ==
    LET c == Cur(m) IN
    CASE c.k = "Escape" -> Fall(Push(m, byte))
      [] c.k = "Exclamation" -> Rise(Fall(Push(m, 33)), Escape)
      [] OTHER -> Rise(m, Escape)

(***************************************************************************)
(* Arm b'#' (lines 339-421)                                                *)
(***************************************************************************)
\* a slip of the level cap: six levels counted from 0
HashOnHeader_CapFive(m, byte) ==
    LET c == Cur(m) IN
    IF c.n < 5 THEN SetCur(m, Header(c.n + 1, c.p)) ELSE m

\* the level counted without its cap
HashOnHeader_Uncapped(m, byte) ==
    LET c == Cur(m) IN SetCur(m, Header((c.n + 1) % 256, c.p))

\* State::Header(n, p) (lines 352-358)
HashOnHeader(m, byte) ==
    LET c == Cur(m) IN
    IF c.n < 6 THEN SetCur(m, Header(c.n + 1, c.p)) ELSE m

HashArm(m, byte) ==
    LET c == Cur(m) IN
    CASE c.k = "None" -> Rise(m, Header(1, FALSE))
      [] c.k = "Intendation" ->
           Rise(IF c.exp THEN Fall(CloseIntend(m)) ELSE m, Header(1, FALSE))
      [] c.k = "Header" -> HashOnHeader(m, byte)
      [] c.k = "Escape" -> Fall(Push(m, byte))
      [] c.k = "Exclamation" -> Fall(Push(Push(m, 33), byte))
      [] c.k = "Code" ->
           LET m1 == IF c.ls
                     THEN CASE c.n = 1 -> WriteTag(SetCur(m, Code(FALSE, c.n)), "<codei>")
                            [] c.n = 3 -> SetCur(WriteTag(m, "<codeb>"), Code(FALSE, c.n))
                            [] OTHER -> Fall(Push(m, byte))
                     ELSE m
           IN  Push(m1, byte)
      [] IsLinkOrImage(c) ->
           CASE c.ld.status = Alt(0) ->
                  SetCur(m, [c EXCEPT !.ld.alt = Append(@, byte)])
             [] c.ld.status = StLink ->
                  SetCur(m, [c EXCEPT !.ld.link = Append(@, byte)])
             [] OTHER -> Fall(Push(WriteRawLink(m, c.ld), byte))
      [] OTHER -> Push(m, byte)

(***************************************************************************)
(* Arm b' ' (lines 423-529)                                                *)
(***************************************************************************)
\* the list tag written for every item, the written flag not consulted
SpaceOnUList_AlwaysOpens(m, byte) ==
    Rise(SetCur(WriteTag(WriteTag(m, "<ul>"), "<li>"), UList(FALSE, TRUE)), LItem)

\* the item pushed with the list frame's flags left as they were
SpaceOnUList_KeepsFlags(m, byte) ==
    LET c == Cur(m)
        m1 == IF ~c.written THEN WriteTag(m, "<ul>") ELSE m
    IN  Rise(WriteTag(m1, "<li>"), LItem)

\* State::UList(true, written) (lines 516-524)
SpaceOnUList(m, byte) ==
    LET c == Cur(m)
        m1 == IF ~c.written THEN WriteTag(m, "<ul>") ELSE m
    IN  Rise(SetCur(WriteTag(m1, "<li>"), UList(FALSE, TRUE)), LItem)

SpaceArm(m, byte) ==
    LET c == Cur(m) IN
    CASE c.k = "None" ->
           Rise(WriteTag(m, "<int>"), Intendation(FALSE, <<>>))
      [] c.k = "Header" ->
           IF ~c.p
           THEN SetCur(WriteHOpen(m, c.n), Header(c.n, TRUE))
           ELSE Push(m, byte)
      [] c.k = "Code" ->
           IF c.ls
           THEN CASE c.n = 1 -> SetCur(Push(WriteTag(m, "<codei>"), byte), Code(FALSE, c.n))
                  [] c.n = 3 -> SetCur(Push(WriteTag(m, "<codeb>"), byte), Code(FALSE, c.n))
                  [] OTHER -> Push(Fall(m), byte)
           ELSE Push(m, byte)
      [] c.k = "Italic" /\ c.seen ->
           SetCur(Push(WriteTag(m, "<i>"), byte), Italic(FALSE))
      [] c.k = "Bold" /\ c.seen ->
           SetCur(Push(WriteTag(m, "<b>"), byte), Bold(FALSE))
      [] c.k = "Link" ->
           IF is_link(c.ld)
           THEN Write(m, <<37, 50, 48>>)
           ELSE IF alt_expects_url(c.ld)
                THEN Fall(Push(Push(Write(Push(m, 91), c.ld.alt), 93), byte))
                ELSE SetCur(m, [c EXCEPT !.ld.alt = Append(@, byte)])
      [] c.k = "Intendation" -> SetCur(m, Intendation(FALSE, c.inner))
      [] c.k = "Escape" -> Fall(Push(m, byte))
      [] c.k = "Exclamation" -> Fall(Push(Push(m, 33), byte))
      [] c.k = "UList" /\ c.seen -> SpaceOnUList(m, byte)
      [] c.k = "UList" /\ ~c.seen -> m
      [] OTHER -> Push(m, byte)

(***************************************************************************)
(* Arm b'[' (lines 531-578)                                                *)
(***************************************************************************)
LBracketArm(m, byte) ==
    LET c == Cur(m)
        ld == Linkdata(Alt(0), <<>>, <<>>)
    IN
    CASE IsLinkOrImage(c) ->
           IF is_link(c.ld)
           THEN SetCur(m, [c EXCEPT !.ld.link = Append(@, byte)])
           ELSE m
      [] c.k = "Escape" -> Fall(Push(m, byte))
      [] c.k = "Exclamation" -> SetCur(m, Image(ld))
      [] c.k = "Intendation" ->
           Rise(IF c.exp THEN Fall(CloseIntend(m)) ELSE m, Link(ld))
      [] c.k = "UList" ->
           LET m1 == IF c.written THEN WriteTag(m, "</ul>") ELSE m
           IN  Rise(Fall(Fall(WriteTag(m1, "</p>"))), Link(ld))
      [] OTHER -> Rise(m, Link(ld))

(***************************************************************************)
(* Arm b'(' (lines 580-665).  LParenOnLink is the body of the Link/Image   *)
(* case, which the Exclamation case repeats (lines 581-601, 623-643).      *)
(***************************************************************************)
LParenOnLink(m, byte) ==
    LET c == Cur(m) IN
    IF is_alt(c.ld)
    THEN IF alt_expects_url(c.ld)
         THEN SetCur(m, [c EXCEPT !.ld.status = StLink])
         ELSE Fall(Push(Write(Push(m, 91), c.ld.alt), byte))
    ELSE Fall(Push(WriteRawLink(m, c.ld), byte))

LParenArm(m, byte) ==
    LET c == Cur(m) IN
    CASE IsLinkOrImage(c) -> LParenOnLink(m, byte)
      [] c.k = "Escape" -> Fall(Push(m, byte))
      [] c.k = "Intendation" ->
           SetCur(Push(WriteTag(CloseIntend(m), "<p>"), byte), Paragraph)
      [] c.k = "Exclamation" ->
           LET m1 == Fall(Push(m, 33))
           IN  IF IsLinkOrImage(Cur(m1)) THEN LParenOnLink(m1, byte) ELSE Push(m1, byte)
      [] c.k = "UList" ->
           LET m1 == IF c.written THEN WriteTag(m, "</ul>") ELSE m
           IN  Fall(Push(WriteTag(WriteTag(m1, "</p>"), "<p>"), byte))
      [] OTHER -> Push(m, byte)

(***************************************************************************)
(* Arm b']' (lines 667-725).  RBracketOnLink: lines 668-681 and 693-706.   *)
(***************************************************************************)
RBracketOnLink(m, byte) ==
    LET c == Cur(m) IN
    IF is_alt(c.ld)
    THEN IF alt_expects_closure(c.ld)
         THEN SetCur(m, [c EXCEPT !.ld.status = Alt(1)])
         ELSE Fall(Push(Write(m, c.ld.alt), byte))
    ELSE SetCur(m, [c EXCEPT !.ld.link = Append(@, byte)])

RBracketArm(m, byte) ==
    LET c == Cur(m) IN
    CASE IsLinkOrImage(c) -> RBracketOnLink(m, byte)
      [] c.k = "Escape" -> Fall(Push(m, byte))
      [] c.k = "Exclamation" ->
           LET m1 == Fall(Push(m, 33))
           IN  IF IsLinkOrImage(Cur(m1)) THEN RBracketOnLink(m1, byte) ELSE Push(m1, byte)
      [] c.k = "Intendation" ->
           Push(SetCur(WriteTag(CloseIntend(m), "<p>"), Paragraph), byte)
      [] OTHER -> Push(m, byte)

(***************************************************************************)
(* Arm b')' (lines 727-809).  RParenOnLink: lines 728-754 and 776-802.     *)
(***************************************************************************)
RParenOnLink(m, byte) ==
    LET c == Cur(m) IN
    IF is_link(c.ld)
    THEN Fall(IF c.k = "Link" THEN WriteAnchor(m, c.ld) ELSE WriteImg(m, c.ld))
    ELSE Push(m, byte)

RParenArm(m, byte) ==
    LET c == Cur(m) IN
    CASE IsLinkOrImage(c) -> RParenOnLink(m, byte)
      [] c.k = "Escape" -> Fall(Push(m, byte))
      [] c.k = "Intendation" ->
           SetCur(Push(WriteTag(CloseIntend(m), "<p>"), byte), Paragraph)
      [] c.k = "Exclamation" ->
           LET m1 == Fall(Push(m, 33))
           IN  IF IsLinkOrImage(Cur(m1)) THEN RParenOnLink(m1, byte) ELSE Push(m1, byte)
      [] OTHER -> Push(m, byte)

(***************************************************************************)
(* Arm b'\r' | b'\n' (lines 811-952)                                       *)
(***************************************************************************)
\* while !state_machine.is_none() { ... } (lines 859-865)
RECURSIVE CodeUnwind(_)
CodeUnwind(m) ==
    IF is_none(m.sm)
    THEN m
    ELSE CodeUnwind(Fall(IF is_paragraph(m.sm) THEN WriteTag(m, "</p>") ELSE m))

\* loop { match state_machine.current { ... } fall } (lines 909-929)
RECURSIVE ExclUnwind(_, _)
ExclUnwind(m, byte) ==
    LET c == Cur(m) IN
    CASE c.k = "Paragraph" -> ExclUnwind(Fall(WriteTag(m, "</p>")), byte)
      [] c.k = "Header" -> ExclUnwind(Fall(WriteHClose(m, c.n)), byte)
      [] c.k = "Intendation" -> SetCur(m, Intendation(TRUE, Append(c.inner, byte)))
      [] OTHER -> Push(m, byte)

\* the rule taken to need more than three dashes
NewlineOnHor_FromFour(m, byte) ==
    IF Cur(m).n >= 4
    THEN Fall(Fall(Push(WriteTag(m, "<hr>"), byte)))
    ELSE Push(m, byte)

\* State::Hor(3..), and Hor(0..=2) in the catch-all (lines 944-950)
NewlineOnHor(m, byte) ==
    IF Cur(m).n >= 3
    THEN Fall(Fall(Push(WriteTag(m, "<hr>"), byte)))
    ELSE Push(m, byte)

NewlineArm(m, byte) ==
    LET c == Cur(m) IN
    CASE c.k = "None" -> Push(m, byte)
      [] c.k = "Header" -> Fall(Push(WriteHClose(m, c.n), byte))
      [] c.k = "Paragraph" ->
           LET m1 == Fall(WriteTag(m, "</p>"))
               p == Cur(m1)
           IN  IF p.k = "Intendation"
               THEN SetCur(m1, Intendation(TRUE, Append(p.inner, byte)))
               ELSE Push(m1, byte)
      [] c.k = "Code" ->
           Push(CASE c.n = 1 -> CodeUnwind(Fall(WriteTag(m, "</codei>")))
                  [] c.n = 2 -> Fall(m)
                  [] OTHER -> m,
                byte)
      [] c.k = "Escape" -> Fall(Push(m, byte))
      [] IsLinkOrImage(c) ->
           IF is_alt(c.ld)
           THEN Fall(Push(Write(Push(m, 91), c.ld.alt), byte))
           ELSE Fall(Push(WriteRawLink(m, c.ld), byte))
      [] c.k = "Intendation" ->
           SetCur(m, Intendation(TRUE, Append(c.inner, byte)))
      [] c.k = "Exclamation" -> ExclUnwind(Fall(Push(m, 33)), byte)
      [] c.k = "LItem" -> Fall(Push(WriteTag(m, "</li>"), byte))
      [] c.k = "UList" /\ c.seen -> Fall(Fall(WriteTag(Push(m, byte), "</p>")))
      [] c.k = "Hor" -> NewlineOnHor(m, byte)
      [] OTHER -> Push(m, byte)

(***************************************************************************)
(* Arm b'`' (lines 954-1029)                                               *)
(***************************************************************************)
\* the block closed one backtick late
BacktickArm_ClosesAtSeven(m, byte) ==
    LET c == Cur(m) IN
    CASE c.k = "Code" ->
           LET x == (c.n + 1) % 256 IN
           IF c.ls
           THEN LET m1 == SetCur(m, Code(c.ls, x))
                IN  IF x = 7 THEN Fall(WriteTag(m1, "</codeb>")) ELSE m1
           ELSE IF x = 2
                THEN Fall(WriteTag(m, "</codei>"))
                ELSE SetCur(m, Code(TRUE, x))
      [] OTHER -> Rise(m, Code(TRUE, 1))

BacktickArm(m, byte) ==
    LET c == Cur(m) IN
    CASE c.k = "None" ->
           Rise(Rise(WriteTag(m, "<p>"), Paragraph), Code(TRUE, 1))
      [] c.k = "Code" ->
           LET x == (c.n + 1) % 256 IN
           IF c.ls
           THEN LET m1 == SetCur(m, Code(c.ls, x))
                IN  IF x = 6 THEN Fall(WriteTag(m1, "</codeb>")) ELSE m1
           ELSE IF x = 2
                THEN Fall(WriteTag(m, "</codei>"))
                ELSE SetCur(m, Code(TRUE, x))
      [] c.k = "Escape" -> Fall(Push(m, byte))
      [] c.k = "Intendation" ->
           IF ~c.exp
           THEN Rise(Rise(WriteTag(m, "<p>"), Paragraph), Code(TRUE, 1))
           ELSE SetCur(WriteTag(CloseIntend(m), "<p>"), Code(TRUE, 1))
      [] c.k = "Exclamation" -> SetCur(Push(m, 33), Code(TRUE, 1))
      [] c.k = "Italic" /\ c.seen ->
           Rise(SetCur(WriteTag(m, "<i>"), Italic(FALSE)), Code(TRUE, 1))
      [] c.k = "Bold" ->
           Rise(IF c.seen THEN SetCur(Push(m, 42), Bold(FALSE)) ELSE m, Code(TRUE, 1))
      [] OTHER -> Rise(m, Code(TRUE, 1))

(***************************************************************************)
(* Arm b'*' (lines 1031-1155)                                              *)
(***************************************************************************)
\* Bold pushed on top of the Italic frame, where the code switches the frame
StarOnItalic_Pushes(m, byte) ==
    IF Cur(m).seen
    THEN Rise(WriteTag(m, "<b>"), Bold(FALSE))
    ELSE Fall(WriteTag(m, "</i>"))

\* State::Italic(seen) (lines 1126-1138)
StarOnItalic(m, byte) ==
    IF Cur(m).seen
    THEN SetCur(WriteTag(m, "<b>"), Bold(FALSE))
    ELSE Fall(WriteTag(m, "</i>"))

\* the first `*` of the closing pair taken for the whole pair
StarOnBold_ClosesOnFirst(m, byte) == Fall(WriteTag(m, "</b>"))

\* State::Bold(seen) (lines 1140-1148)
StarOnBold(m, byte) ==
    IF Cur(m).seen
    THEN Fall(WriteTag(m, "</b>"))
    ELSE SetCur(m, Bold(TRUE))

StarArm(m, byte) ==
    LET c == Cur(m) IN
    CASE c.k = "None" ->
           Rise(Rise(WriteTag(m, "<p>"), Paragraph), Italic(TRUE))
      [] c.k = "Paragraph" -> Rise(m, Italic(TRUE))
      [] c.k = "Intendation" ->
           IF c.exp
           THEN Rise(Rise(Fall(WriteTag(CloseIntend(m), "<p>")), Paragraph), Italic(TRUE))
           ELSE Rise(Rise(WriteTag(m, "<p>"), Paragraph), Italic(TRUE))
      [] c.k = "Escape" ->
           LET m1 == Fall(m)
               p == Cur(m1)
               m2 == CASE p.k = "None" -> Rise(WriteTag(m1, "<p>"), Paragraph)
                       [] p.k = "Intendation" ->
                            IF p.exp
                            THEN Rise(Fall(WriteTag(CloseIntend(m1), "<p>")), Paragraph)
                            ELSE Rise(WriteTag(m1, "<p>"), Paragraph)
                       [] OTHER -> m1
           IN  Push(m2, byte)
      [] c.k = "Code" ->
           IF c.ls
           THEN CASE c.n = 1 -> SetCur(Push(WriteTag(m, "<codei>"), byte), Code(FALSE, c.n))
                  [] c.n = 3 -> SetCur(Push(WriteTag(m, "<codeb>"), byte), Code(FALSE, c.n))
                  [] OTHER -> Fall(Push(m, byte))
           ELSE Push(m, byte)
      [] c.k = "Exclamation" -> SetCur(Push(m, 33), Italic(TRUE))
      [] c.k = "Header" -> Rise(m, Italic(TRUE))
      [] c.k = "Italic" -> StarOnItalic(m, byte)
      [] c.k = "Bold" -> StarOnBold(m, byte)
      [] c.k = "Underscore" -> Rise(m, Italic(TRUE))
      [] OTHER -> Push(m, byte)

(***************************************************************************)
(* Arm b'_' (lines 1157-1227)                                              *)
(***************************************************************************)
UnderscoreArm(m, byte) ==
    LET c == Cur(m) IN
    CASE c.k = "None" ->
           Rise(Rise(WriteTag(m, "<p>"), Paragraph), Underscore)
      [] c.k = "Paragraph" \/ c.k = "Header" -> Rise(m, Underscore)
      [] c.k = "Intendation" ->
           IF c.exp
           THEN Rise(Rise(Fall(WriteTag(WriteTag(CloseIntend(m), "<p>"), "<u>")),
                          Paragraph), Underscore)
           ELSE Rise(WriteTag(m, "<u>"), Underscore)
      [] c.k = "Bold" ->
           LET m1 == IF c.seen THEN SetCur(Push(m, 42), Bold(FALSE)) ELSE m
           IN  Rise(WriteTag(m1, "<u>"), Underscore)
      [] c.k = "Italic" ->
           LET m1 == IF c.seen THEN Rise(WriteTag(m, "<i>"), Italic(FALSE)) ELSE m
           IN  Rise(WriteTag(m1, "<u>"), Underscore)
      [] c.k = "Underscore" -> Fall(WriteTag(m, "</u>"))
      [] c.k = "Escape" -> Fall(Push(m, byte))
      [] c.k = "Exclamation" -> Rise(Fall(Push(m, 33)), Underscore)
      [] IsLinkOrImage(c) ->
           IF is_alt(c.ld)
           THEN SetCur(m, [c EXCEPT !.ld.alt = Append(@, byte)])
           ELSE SetCur(m, [c EXCEPT !.ld.link = Append(@, byte)])
      [] OTHER -> Push(m, byte)

(***************************************************************************)
(* Arm b'-' (lines 1229-1286).  Hor(n + 1) is 8-bit arithmetic: with       *)
(* overflow checks (a debug build) n = 255 panics, without them (a release *)
(* build) it wraps to 0.  DashArm is the wrapping result; DashOverflows    *)
(* says when the checked build panics instead.                             *)
(***************************************************************************)
DashOverflows(m) == Cur(m).k = "Hor" /\ Cur(m).n + 1 > 255

DashArm(m, byte) ==
    LET c == Cur(m) IN
    CASE c.k = "None" ->
           Rise(Rise(WriteTag(m, "<p>"), Paragraph), UList(TRUE, FALSE))
      [] c.k = "Intendation" ->
           LET m1 == IF c.exp
                     THEN Fall(CloseIntend(m))
                     ELSE SetCur(Write(m, c.inner), Intendation(c.exp, <<>>))
           IN  Rise(Rise(WriteTag(m1, "<p>"), Paragraph), UList(TRUE, FALSE))
      [] c.k = "UList" /\ c.seen /\ ~c.written -> SetCur(m, Hor(2))
      [] c.k = "UList" /\ c.seen /\ c.written ->
           Rise(Fall(WriteTag(m, "</ul>")), Hor(2))
      [] c.k = "UList" /\ ~c.seen -> SetCur(m, UList(TRUE, c.written))
      [] c.k = "Hor" -> SetCur(m, Hor((c.n + 1) % 256))
      [] c.k = "Escape" -> Fall(Push(m, byte))
      [] c.k = "Exclamation" -> Fall(Push(Push(m, 33), byte))
      [] IsLinkOrImage(c) ->
           IF is_alt(c.ld)
           THEN SetCur(m, [c EXCEPT !.ld.alt = Append(@, byte)])
           ELSE SetCur(m, [c EXCEPT !.ld.link = Append(@, byte)])
      [] OTHER -> Push(m, byte)

(***************************************************************************)
(* Arm _ (line 1288)                                                       *)
(***************************************************************************)
OtherArm(m, byte) == Push(m, byte)

(***************************************************************************)
(* The code after the loop (lines 1294-1311)                               *)
(***************************************************************************)
\* the paragraph tag closed whatever frame is on top
Unwind_ClosesUnasked(m) ==
    LET m1 == IF is_ulist(m.sm) THEN Fall(WriteTag(m, "</ul>")) ELSE m
        m2 == Fall(WriteTag(m1, "</p>"))
    IN  IF is_intend(m2.sm) THEN WriteTag(m2, "</int>") ELSE m2

Unwind(m) ==
    LET m1 == IF is_ulist(m.sm) THEN Fall(WriteTag(m, "</ul>")) ELSE m
        m2 == IF is_paragraph(m1.sm) THEN Fall(WriteTag(m1, "</p>")) ELSE m1
    IN  IF is_intend(m2.sm) THEN WriteTag(m2, "</int>") ELSE m2

\* the body of the for loop for one byte
Dispatch(m, byte) ==
    LET cl == Class(byte) IN
    CASE cl = "literal" -> LiteralArm(m, byte)
      [] cl = "!" -> ExclamationArm(m, byte)
      [] cl = "backslash" -> BackslashArm(m, byte)
      [] cl = "#" -> HashArm(m, byte)
      [] cl = "space" -> SpaceArm(m, byte)
      [] cl = "[" -> LBracketArm(m, byte)
      [] cl = "(" -> LParenArm(m, byte)
      [] cl = "]" -> RBracketArm(m, byte)
      [] cl = ")" -> RParenArm(m, byte)
      [] cl = "newline" -> NewlineArm(m, byte)
      [] cl = "backtick" -> BacktickArm(m, byte)
      [] cl = "*" -> StarArm(m, byte)
      [] cl = "_" -> UnderscoreArm(m, byte)
      [] cl = "-" -> DashArm(m, byte)
      [] OTHER -> OtherArm(m, byte)

(***************************************************************************)
(* The inputs explored.  parse takes any Vec<u8>; the model feeds it, byte *)
(* by byte, every input that fits one of the patterns below.  A pattern is *)
(* a sequence of tokens: a token >= 0 is that byte, a token < 0 is a run   *)
(* of one or more bytes of a set, up to a bound:                           *)
(*   - every sequence over Alphabet (one byte of each class the classifier *)
(*     tells apart, `^` being the only byte of the catch-all arm) of       *)
(*     length up to MaxLen;                                                *)
(*   - every one-byte input, and every two-byte input with one arbitrary   *)
(*     byte 0..255 and one Alphabet byte;                                  *)
(*   - plain text, emphasis, header lines, list lines, links, images and   *)
(*     runs of dashes, whose texts are runs of literal-class bytes (`a`,   *)
(*     0xC3 a truncated UTF-8 lead, NUL);                                  *)
(*   - the examples of the specification, byte for byte.                   *)
(* Since the input may end after any byte, every prefix of such an input   *)
(* is explored as well.  feed.rest is the part of the pattern still to     *)
(* come and feed.run the length of the run being fed.                      *)
(***************************************************************************)
Alphabet == {10, 32, 33, 35, 40, 41, 42, 45, 91, 92, 93, 94, 95, 96, 97}
TextBytes == {97, 195}
PlainBytes == {97, 195, 0, 94}

RunText == 0 - 1
RunPlain == 0 - 2
RunDashes == 0 - 3
RunAlphabet == 0 - 4
OneByte == 0 - 5
OneAlphabetByte == 0 - 6
RunTicks == 0 - 7

RunBytes(t) ==
    CASE t = RunText -> TextBytes
      [] t = RunPlain -> PlainBytes
      [] t = RunDashes -> {45}
      [] t = RunTicks -> {96}
      [] t = RunAlphabet -> Alphabet
      [] t = OneByte -> 0..255
      [] t = OneAlphabetByte -> Alphabet

RunMax(t) ==
    CASE t = RunText -> MaxText
      [] t = RunPlain -> MaxPlain
      [] t = RunDashes -> MaxDashes
      [] t = RunTicks -> MaxTicks
      [] t = RunAlphabet -> MaxLen
      [] OTHER -> 1

Repeat(seq, n) == [i \in 1..(n * Len(seq)) |-> seq[((i - 1) % Len(seq)) + 1]]

\* [text](http://x)   ![alt](http://x)   "# Title\n"   "- a\n- b\n"   "---\n"
ExLink == <<91, 116, 101, 120, 116, 93, 40, 104, 116, 116, 112, 58, 47, 47, 120, 41>>
ExImage == <<33, 91, 97, 108, 116, 93, 40, 104, 116, 116, 112, 58, 47, 47, 120, 41>>
ExHeader == <<35, 32, 84, 105, 116, 108, 101, 10>>
ExList == <<45, 32, 97, 10, 45, 32, 98, 10>>
ExRule == <<45, 45, 45, 10>>

Patterns ==
    {<<RunAlphabet>>, <<OneByte, OneAlphabetByte>>, <<OneAlphabetByte, OneByte>>,
     <<RunPlain>>,
     <<42, RunText, 42>>, <<42, 42, RunText, 42, 42>>,
     Repeat(<<45, 32, RunText, 10>>, MaxLines),
     <<91, RunText, 93, 40, RunText, 41>>,
     <<33, 91, RunText, 93, 40, RunText, 41>>,
     <<RunDashes, 10>>,
     <<RunTicks, RunText, RunTicks>>,
     <<45, 32, 97, 10, OneAlphabetByte, OneAlphabetByte>>,
     ExLink, ExImage, ExHeader, ExList, ExRule}
      \cup {Repeat(<<35>>, n) \o <<32, RunText, 10>> : n \in 1..7}

\* the bytes that may come next, and the feed after byte b
RECURSIVE NextBytes(_)
NextBytes(f) ==
    IF f.rest = <<>>
    THEN {}
    ELSE LET t == Head(f.rest) IN
         IF t >= 0
         THEN {t}
         ELSE (IF f.run < RunMax(t) THEN RunBytes(t) ELSE {})
                \cup (IF f.run >= 1
                      THEN NextBytes([rest |-> Tail(f.rest), run |-> 0])
                      ELSE {})

RECURSIVE Fed(_, _)
Fed(f, b) ==
    LET t == Head(f.rest) IN
    IF t >= 0
    THEN [rest |-> Tail(f.rest), run |-> 0]
    ELSE IF f.run < RunMax(t) /\ b \in RunBytes(t)
         THEN [f EXCEPT !.run = @ + 1]
         ELSE Fed([rest |-> Tail(f.rest), run |-> 0], b)

(***************************************************************************)
(* The state machine.  pc is the position in parse: "loop" in the for      *)
(* loop, "done" once output is returned, "panicked" after an arithmetic    *)
(* overflow in a build with overflow checks.  input is the bytes consumed  *)
(* so far.                                                                 *)
(***************************************************************************)
M == [sm |-> state_machine, out |-> output, tags |-> tags]

Init ==
    /\ feed \in {[rest |-> p, run |-> 0] : p \in Patterns}
    /\ input = <<>>
    /\ state_machine = <<None>>
    /\ output = <<>>
    /\ tags = <<>>
    /\ pc = "loop"
    /\ conns = <<>>

\* for byte in bytes: the next byte, of class cl, is taken from the input
Take(b, cl) ==
    /\ pc = "loop"
    /\ Class(b) = cl
    /\ input' = Append(input, b)
    /\ feed' = Fed(feed, b)
    /\ UNCHANGED conns

Apply(m) ==
    /\ state_machine' = m.sm
    /\ output' = m.out
    /\ tags' = m.tags
    /\ pc' = "loop"

LiteralStep(b) == Take(b, "literal") /\ Apply(LiteralArm(M, b))
ExclamationStep(b) == Take(b, "!") /\ Apply(ExclamationArm(M, b))
BackslashStep(b) == Take(b, "backslash") /\ Apply(BackslashArm(M, b))
HashStep(b) == Take(b, "#") /\ Apply(HashArm(M, b))
SpaceStep(b) == Take(b, "space") /\ Apply(SpaceArm(M, b))
LBracketStep(b) == Take(b, "[") /\ Apply(LBracketArm(M, b))
LParenStep(b) == Take(b, "(") /\ Apply(LParenArm(M, b))
RBracketStep(b) == Take(b, "]") /\ Apply(RBracketArm(M, b))
RParenStep(b) == Take(b, ")") /\ Apply(RParenArm(M, b))
NewlineStep(b) == Take(b, "newline") /\ Apply(NewlineArm(M, b))
BacktickStep(b) == Take(b, "backtick") /\ Apply(BacktickArm(M, b))
StarStep(b) == Take(b, "*") /\ Apply(StarArm(M, b))
UnderscoreStep(b) == Take(b, "_") /\ Apply(UnderscoreArm(M, b))
DashStep(b) == Take(b, "-") /\ Apply(DashArm(M, b))
OtherStep(b) == Take(b, "other") /\ Apply(OtherArm(M, b))

\* Hor(n + 1) with n = 255 in a build with overflow checks: parse panics
DashPanic(b) ==
    /\ Take(b, "-")
    /\ DashOverflows(M)
    /\ pc' = "panicked"
    /\ UNCHANGED <<state_machine, output, tags>>

\* the input is exhausted: the code after the loop, and the return
EndOfInput ==
    /\ pc = "loop"
    /\ LET m == Unwind(M) IN
         /\ state_machine' = m.sm
         /\ output' = m.out
         /\ tags' = m.tags
    /\ pc' = "done"
    /\ UNCHANGED <<input, feed, conns>>

Next ==
    \/ \E b \in NextBytes(feed) : LiteralStep(b)
    \/ \E b \in NextBytes(feed) : ExclamationStep(b)
    \/ \E b \in NextBytes(feed) : BackslashStep(b)
    \/ \E b \in NextBytes(feed) : HashStep(b)
    \/ \E b \in NextBytes(feed) : SpaceStep(b)
    \/ \E b \in NextBytes(feed) : LBracketStep(b)
    \/ \E b \in NextBytes(feed) : LParenStep(b)
    \/ \E b \in NextBytes(feed) : RBracketStep(b)
    \/ \E b \in NextBytes(feed) : RParenStep(b)
    \/ \E b \in NextBytes(feed) : NewlineStep(b)
    \/ \E b \in NextBytes(feed) : BacktickStep(b)
    \/ \E b \in NextBytes(feed) : StarStep(b)
    \/ \E b \in NextBytes(feed) : UnderscoreStep(b)
    \/ \E b \in NextBytes(feed) : DashStep(b)
    \/ \E b \in NextBytes(feed) : OtherStep(b)
    \/ \E b \in NextBytes(feed) : DashPanic(b)
    \/ EndOfInput

Spec == Init /\ [][Next]_vars

\* parse applied to a whole input: the loop, then the code after it
RECURSIVE Run(_, _)
Run(m, bytes) == IF bytes = <<>> THEN m ELSE Run(Dispatch(m, Head(bytes)), Tail(bytes))

\* the locals of parse before the loop (lines 142-155)
Locals0 == [sm |-> <<None>>, out |-> <<>>, tags |-> <<>>]

\* MDS::parse as a function, for the inputs that do not overflow Hor
parse(bytes) == Unwind(Run(Locals0, bytes)).out

(***************************************************************************)
(* The daemon (src/src/main.rs).  handle_args binds the listener and       *)
(* spawns one thread running stream_handler for each incoming connection.  *)
(* A connection record holds:                                              *)
(*   payload  the payload of the request the client sends,                 *)
(*   rx       the bytes of the request not yet read from the socket,       *)
(*   at       the position of the handler thread,                          *)
(*   lbuf, mdbuf, parsed   the locals of stream_handler,                   *)
(*   pos, m   the position and the locals of the call of parse,            *)
(*   tx       the bytes the socket has accepted from the handler.          *)
(* Read::read and Write::write each make one transfer and return its byte  *)
(* count: a read returns between 1 byte and what the buffer holds or the   *)
(* socket has, a write accepts between 1 byte and the whole buffer.        *)
(***************************************************************************)
\* const PS: usize = std::mem::size_of::<usize>(), on a 64-bit target
PS == 8

\* the connections served at the same time
Handlers == {1, 2}

PayloadBytes == {42, 97}
Payloads == UNION {[1..n -> PayloadBytes] : n \in 0..MaxPayload}

\* usize::to_be_bytes, k bytes wide
RECURSIVE to_be_bytes(_, _)
to_be_bytes(n, k) ==
    IF k = 0 THEN <<>> ELSE Append(to_be_bytes(n \div 256, k - 1), n % 256)

\* usize::from_be_bytes
RECURSIVE from_be_bytes(_)
from_be_bytes(buf) ==
    IF buf = <<>>
    THEN 0
    ELSE from_be_bytes(SubSeq(buf, 1, Len(buf) - 1)) * 256 + buf[Len(buf)]

\* the request on the wire: the length, then the payload
Frame(payload) == to_be_bytes(Len(payload), PS) \o payload

\* the byte counts one read into a buffer of n bytes can return
ReadCounts(n, rx) ==
    IF n = 0 \/ rx = <<>>
    THEN {0}
    ELSE 1..(IF n < Len(rx) THEN n ELSE Len(rx))

\* a zeroed buffer of n bytes after a read that returned k bytes
Filled(n, rx, k) == [i \in 1..n |-> IF i <= k THEN rx[i] ELSE 0]

\* the byte counts one write of n bytes can return: all of it, or a short count
WriteCounts(n) == IF n = 0 THEN {0} ELSE {1, n}

\* the locals of the call of parse made by handler h belong to that call
Locals_Static(h) == conns[1].m

Locals(h) == conns[h].m

InitDaemon ==
    /\ conns \in [Handlers ->
                   {[payload |-> p, rx |-> Frame(p), at |-> "incoming",
                     lbuf |-> <<>>, mdbuf |-> <<>>, pos |-> 0, m |-> Locals0,
                     parsed |-> <<>>, tx |-> <<>>] : p \in Payloads}]
    /\ feed = [rest |-> <<>>, run |-> 0]
    /\ input = <<>>
    /\ state_machine = <<None>>
    /\ output = <<>>
    /\ tags = <<>>
    /\ pc = "done"

\* for stream in listener.incoming(): spawn(|| stream_handler(stream))
Spawn(h) ==
    /\ conns[h].at = "incoming"
    /\ conns' = [conns EXCEPT ![h].at = "read_len"]
    /\ UNCHANGED <<feed, input, state_machine, output, tags, pc>>

\* stream.read(&mut lbuf) returned Ok(k)
ReadLength(h) ==
    /\ conns[h].at = "read_len"
    /\ \E k \in ReadCounts(PS, conns[h].rx) :
         conns' = [conns EXCEPT
                     ![h].lbuf = Filled(PS, conns[h].rx, k),
                     ![h].rx = SubSeq(@, k + 1, Len(@)),
                     ![h].at = "read_payload"]
    /\ UNCHANGED <<feed, input, state_machine, output, tags, pc>>

\* len = usize::from_be_bytes(lbuf); mdbuf = vec![0; len];
\* stream.read(&mut mdbuf) returned Ok(k); parse is entered
ReadPayload(h) ==
    /\ conns[h].at = "read_payload"
    /\ LET len == from_be_bytes(conns[h].lbuf) IN
       \E k \in ReadCounts(len, conns[h].rx) :
         conns' = [conns EXCEPT
                     ![h].mdbuf = Filled(len, conns[h].rx, k),
                     ![h].rx = SubSeq(@, k + 1, Len(@)),
                     ![h].pos = 0,
                     ![h].m = Locals0,
                     ![h].at = "parse"]
    /\ UNCHANGED <<feed, input, state_machine, output, tags, pc>>

\* one iteration of the loop of parse in the thread of handler h
ParseByte(h) ==
    /\ conns[h].at = "parse"
    /\ conns[h].pos < Len(conns[h].mdbuf)
    /\ conns' = [conns EXCEPT
                   ![h].m = Dispatch(Locals(h), conns[h].mdbuf[conns[h].pos + 1]),
                   ![h].pos = @ + 1]
    /\ UNCHANGED <<feed, input, state_machine, output, tags, pc>>

\* the code after the loop; let parsed = mdstate::MDS::parse(mdbuf)
ParseReturn(h) ==
    /\ conns[h].at = "parse"
    /\ conns[h].pos = Len(conns[h].mdbuf)
    /\ conns' = [conns EXCEPT
                   ![h].parsed = Unwind(Locals(h)).out,
                   ![h].at = "write_len"]
    /\ UNCHANGED <<feed, input, state_machine, output, tags, pc>>

\* stream.write(&plen) returned Ok(k)
WriteLength(h) ==
    /\ conns[h].at = "write_len"
    /\ \E k \in WriteCounts(PS) :
         conns' = [conns EXCEPT
                     ![h].tx = SubSeq(to_be_bytes(Len(conns[h].parsed), PS), 1, k),
                     ![h].at = "write_payload"]
    /\ UNCHANGED <<feed, input, state_machine, output, tags, pc>>

\* stream.write(&parsed) returned Ok(k), stream.flush() Ok: return
WritePayload(h) ==
    /\ conns[h].at = "write_payload"
    /\ \E k \in WriteCounts(Len(conns[h].parsed)) :
         conns' = [conns EXCEPT
                     ![h].tx = @ \o SubSeq(conns[h].parsed, 1, k),
                     ![h].at = "returned"]
    /\ UNCHANGED <<feed, input, state_machine, output, tags, pc>>

\* a read, a write or the flush returned Err(e): eprintln and return
IoError(h) ==
    /\ conns[h].at \in {"read_len", "read_payload", "write_len", "write_payload"}
    /\ conns' = [conns EXCEPT ![h].at = "failed"]
    /\ UNCHANGED <<feed, input, state_machine, output, tags, pc>>

NextDaemon ==
    \/ \E h \in Handlers : Spawn(h)
    \/ \E h \in Handlers : ReadLength(h)
    \/ \E h \in Handlers : ReadPayload(h)
    \/ \E h \in Handlers : ParseByte(h)
    \/ \E h \in Handlers : ParseReturn(h)
    \/ \E h \in Handlers : WriteLength(h)
    \/ \E h \in Handlers : WritePayload(h)
    \/ \E h \in Handlers : IoError(h)

SpecDaemon == InitDaemon /\ [][NextDaemon]_vars

(***************************************************************************)
(* Helpers of the properties.                                              *)
(***************************************************************************)
Count(seq, x) == Cardinality({i \in 1..Len(seq) : seq[i] = x})

IsPrefixOf(p, s) == Len(p) <= Len(s) /\ SubSeq(s, 1, Len(p)) = p

Contains(s, sub) ==
    \E i \in 0..(Len(s) - Len(sub)) : SubSeq(s, i + 1, i + Len(sub)) = sub

\* the tags the code wrote in the step from this state to the next
NewTags == SubSeq(tags', Len(tags) + 1, Len(tags'))

(***************************************************************************)
(* C1: for every finite input byte sequence parse consumes each byte,      *)
(* terminates and returns an output buffer: no dispatch arm aborts.        *)
(* Stated as: parse is never in the panicked position.                     *)
(***************************************************************************)
C1_ParseNeverAborts == pc # "panicked"

(***************************************************************************)
(* C2: in every reachable state the frame stack is non-empty, its bottom   *)
(* frame is the Root frame State::None, no other frame is None, and fall   *)
(* applied to the stack cut down to its Root returns it unchanged; so no   *)
(* sequence of rise, fall and in-place replacement removes or overwrites   *)
(* the Root frame.                                                         *)
(***************************************************************************)
C2_RootIsTheFloor ==
    /\ Len(state_machine) >= 1
    /\ state_machine[1] = None
    /\ \A i \in 2..Len(state_machine) : state_machine[i].k # "None"
    /\ fall(SubSeq(state_machine, 1, 1)) = SubSeq(state_machine, 1, 1)

\* `**a**` parsed to the end: rise twice, Italic replaced by Bold in place, fall twice
C2_Witness ==
    /\ pc = "done"
    /\ input = <<42, 42, 97, 42, 42>>
    /\ state_machine = <<None>>
    /\ tags = <<"<p>", "<b>", "</b>", "</p>">>

(***************************************************************************)
(* C3: when the input is exhausted every frame still open is unwound from  *)
(* top to bottom, each emitting its closing tag: every Paragraph, Indent   *)
(* and items-written UnorderedList frame on the stack at end of input gets *)
(* its </p>, </div> or </ul> written, whatever frame lies on top of it.    *)
(* Stated as: the tags written by the end-of-input step are the closing    *)
(* tags of those frames, top of the stack first.                           *)
(***************************************************************************)
ClosingOf(f) ==
    CASE f.k = "Paragraph" -> <<"</p>">>
      [] f.k = "Intendation" -> <<"</int>">>
      [] f.k = "UList" /\ f.written -> <<"</ul>">>
      [] OTHER -> <<>>

RECURSIVE ClosersTopDown(_)
ClosersTopDown(sm) ==
    IF sm = <<>>
    THEN <<>>
    ELSE ClosingOf(sm[Len(sm)]) \o ClosersTopDown(SubSeq(sm, 1, Len(sm) - 1))

C3_EndOfInputClosesEveryFrame ==
    [][(pc = "loop" /\ pc' = "done") => NewTags = ClosersTopDown(state_machine)]_vars

(***************************************************************************)
(* C4: at every point of the output each closing tag written closes the    *)
(* most recently written opening tag that is still unclosed, and no        *)
(* closing tag is written whose opening tag was never written.             *)
(***************************************************************************)
VoidTags == {"<hr>", "<img>"}

ClosingTags ==
    {"</p>", "</i>", "</b>", "</u>", "</li>", "</ul>", "</int>", "</codei>",
     "</codeb>", "</a>"} \cup {HName(n, FALSE) : n \in 0..255}

Opener(t) ==
    CASE t = "</p>" -> "<p>"
      [] t = "</i>" -> "<i>"
      [] t = "</b>" -> "<b>"
      [] t = "</u>" -> "<u>"
      [] t = "</li>" -> "<li>"
      [] t = "</ul>" -> "<ul>"
      [] t = "</int>" -> "<int>"
      [] t = "</codei>" -> "<codei>"
      [] t = "</codeb>" -> "<codeb>"
      [] t = "</a>" -> "<a>"
      [] OTHER -> HName(CHOOSE n \in 0..255 : HName(n, FALSE) = t, TRUE)

RECURSIVE Nested(_, _)
Nested(ts, open) ==
    IF ts = <<>>
    THEN TRUE
    ELSE LET t == Head(ts) IN
         IF t \in ClosingTags
         THEN /\ open # <<>>
              /\ open[Len(open)] = Opener(t)
              /\ Nested(Tail(ts), SubSeq(open, 1, Len(open) - 1))
         ELSE IF t \in VoidTags
              THEN Nested(Tail(ts), open)
              ELSE Nested(Tail(ts), Append(open, t))

C4_TagsCloseLastOpenedFirst == Nested(tags, <<>>)

(***************************************************************************)
(* C5: for every non-empty input with none of the classifier's special     *)
(* bytes, `^` allowed, parse returns <p>, the input unchanged, </p>.       *)
(***************************************************************************)
IsPlain(s) ==
    /\ s # <<>>
    /\ \A i \in 1..Len(s) : Class(s[i]) \in {"literal", "other"}

C5_PlainTextIsOneParagraph ==
    (pc = "done" /\ IsPlain(input)) => output = TAG_P_O \o input \o TAG_P_C

(***************************************************************************)
(* C6: a well-formed link [ALT](URL) that starts the input, ALT and URL of *)
(* literal-class bytes, is wrapped in a paragraph: parse returns           *)
(* <p><a href="URL">ALT</a></p>.                                           *)
(***************************************************************************)
\* s is [ALT](URL) with the `]` at position i
IsLinkText(s, i) ==
    /\ 2 < i
    /\ i + 2 < Len(s)
    /\ s[1] = 91
    /\ s[i] = 93
    /\ s[i + 1] = 40
    /\ s[Len(s)] = 41
    /\ \A j \in 2..(i - 1) : IsLiteral(s[j])
    /\ \A j \in (i + 2)..(Len(s) - 1) : IsLiteral(s[j])

AltOf(s, i) == SubSeq(s, 2, i - 1)
UrlOf(s, i) == SubSeq(s, i + 2, Len(s) - 1)

AnchorHtml(alt, url) ==
    <<60, 97, 32, 104, 114, 101, 102, 61, 34>> \o url \o <<34, 62>> \o alt
      \o <<60, 47, 97, 62>>

ImgHtml(alt, url) ==
    <<60, 105, 109, 103, 32, 115, 114, 99, 61, 34>> \o url
      \o <<34, 32, 97, 108, 116, 61, 34>> \o alt \o <<34, 62>>

C6_LinkIsWrappedInParagraph ==
    pc = "done" =>
      \A i \in 1..Len(input) :
        IsLinkText(input, i) =>
          output = TAG_P_O \o AnchorHtml(AltOf(input, i), UrlOf(input, i)) \o TAG_P_C

(***************************************************************************)
(* C7: a well-formed image ![ALT](URL) that starts the input opens a       *)
(* paragraph and emits a void img tag: the output begins with              *)
(* <p><img src="URL" alt="ALT"> and holds no </img>.                       *)
(***************************************************************************)
C7_ImageOpensParagraph ==
    (pc = "done" /\ input # <<>> /\ input[1] = 33) =>
      \A i \in 1..Len(input) :
        IsLinkText(Tail(input), i) =>
          /\ IsPrefixOf(TAG_P_O \o ImgHtml(AltOf(Tail(input), i), UrlOf(Tail(input), i)),
                        output)
          /\ ~Contains(output, <<60, 47, 105, 109, 103, 62>>)

(***************************************************************************)
(* C8: balanced emphasis at the start of input: for every non-empty run s  *)
(* of literal-class bytes, parse of * s * returns <p><i> s </i></p> and    *)
(* parse of ** s ** returns <p><b> s </b></p>.                             *)
(***************************************************************************)
\* s is k stars, a non-empty literal-class run, k stars
IsEmphText(s, k) ==
    /\ Len(s) > 2 * k
    /\ \A j \in 1..k : s[j] = 42 /\ s[Len(s) + 1 - j] = 42
    /\ \A j \in (k + 1)..(Len(s) - k) : IsLiteral(s[j])

EmphBody(s, k) == SubSeq(s, k + 1, Len(s) - k)

C8_BalancedEmphasis ==
    pc = "done" =>
      /\ IsEmphText(input, 1) =>
           output = TAG_P_O \o TAG_I_O \o EmphBody(input, 1) \o TAG_I_C \o TAG_P_C
      /\ IsEmphText(input, 2) =>
           output = TAG_P_O \o TAG_B_O \o EmphBody(input, 2) \o TAG_B_C \o TAG_P_C

\* `**` `a` 0xC3 `**` parsed to the end
C8_Witness ==
    /\ pc = "done"
    /\ input = <<42, 42, 97, 195, 42, 42>>
    /\ output = TAG_P_O \o TAG_B_O \o <<97, 195>> \o TAG_B_C \o TAG_P_C

(***************************************************************************)
(* C9: for every level n in 1..6 and every non-empty literal-class text t, *)
(* parse of n `#`, one space, t and LF returns <hn> t </hn> LF, with no    *)
(* <p> written and the stack back at Root.                                 *)
(***************************************************************************)
IsHeaderLine(s, n) ==
    /\ Len(s) >= n + 3
    /\ \A j \in 1..n : s[j] = 35
    /\ s[n + 1] = 32
    /\ s[Len(s)] = 10
    /\ \A j \in (n + 2)..(Len(s) - 1) : IsLiteral(s[j])

HeaderHtml(n, t) ==
    <<60, 104, 48 + n, 62>> \o t \o <<60, 47, 104, 48 + n, 62, 10>>

C9_HeaderLine ==
    pc # "panicked" =>
      \A n \in 1..6 :
        IsHeaderLine(input, n) =>
          /\ output = HeaderHtml(n, SubSeq(input, n + 2, Len(input) - 1))
          /\ state_machine = <<None>>
          /\ Count(tags, "<p>") = 0

\* `###### a` 0xC3 LF parsed to the end
C9_Witness ==
    /\ pc = "done"
    /\ input = <<35, 35, 35, 35, 35, 35, 32, 97, 195, 10>>
    /\ output = HeaderHtml(6, <<97, 195>>)

(***************************************************************************)
(* C10: for an input of k >= 1 lines, each `- ` followed by literal text   *)
(* and LF, the output contains exactly one <ul>, then the k <li>text</li>  *)
(* elements in input order, then exactly one </ul>.                        *)
(***************************************************************************)
HasLF(s) == \E i \in 1..Len(s) : s[i] = 10
FirstLF(s) == CHOOSE i \in 1..Len(s) : s[i] = 10 /\ \A j \in 1..(i - 1) : s[j] # 10

RECURSIVE IsList(_)
IsList(s) ==
    /\ HasLF(s)
    /\ LET i == FirstLF(s) IN
         /\ i >= 4
         /\ s[1] = 45
         /\ s[2] = 32
         /\ \A j \in 3..(i - 1) : IsLiteral(s[j])
         /\ i = Len(s) \/ IsList(SubSeq(s, i + 1, Len(s)))

\* <li>text</li> LF for every line of a list input
RECURSIVE ListItemsHtml(_)
ListItemsHtml(s) ==
    LET i == FirstLF(s) IN
    TAG_LI_O \o SubSeq(s, 3, i - 1) \o TAG_LI_C \o <<10>>
      \o (IF i = Len(s) THEN <<>> ELSE ListItemsHtml(SubSeq(s, i + 1, Len(s))))

C10_ListLines ==
    (pc = "done" /\ IsList(input)) =>
      /\ Count(tags, "<ul>") = 1
      /\ Count(tags, "</ul>") = 1
      /\ Contains(output, TAG_UL_O \o ListItemsHtml(input) \o TAG_UL_C)

\* "- a\n- b\n" parsed to the end
C10_Witness ==
    /\ pc = "done"
    /\ input = ExList
    /\ Contains(output, TAG_UL_O \o TAG_LI_O \o <<97>> \o TAG_LI_C \o <<10>>
                          \o TAG_LI_O \o <<98>> \o TAG_LI_C \o <<10>> \o TAG_UL_C)

(***************************************************************************)
(* C11: list content is never wrapped by the paragraph machinery: whenever *)
(* <ul> is written there is no <p> written before it that is still         *)
(* unclosed, and no Paragraph frame lies below the UList frame on the      *)
(* stack.                                                                  *)
(***************************************************************************)
\* the number of <p> written in ts and not closed by a </p>
UnclosedP(ts) == Count(ts, "<p>") - Count(ts, "</p>")

ParagraphBelowUList(sm) ==
    \E i, j \in 1..Len(sm) :
        i < j /\ sm[i].k = "Paragraph" /\ sm[j].k = "UList"

C11_ListNotInParagraph ==
    [][\A i \in (Len(tags) + 1)..Len(tags') :
          tags'[i] = "<ul>" =>
              /\ UnclosedP(SubSeq(tags', 1, i - 1)) = 0
              /\ ~ParagraphBelowUList(state_machine')]_vars

(***************************************************************************)
(* C12: parse of three dashes followed by LF returns an output with        *)
(* exactly one <hr> and no `-` byte.                                       *)
(***************************************************************************)
Occurrences(s, sub) ==
    Cardinality({i \in 0..(Len(s) - Len(sub)) : SubSeq(s, i + 1, i + Len(sub)) = sub})

C12_ThreeDashesIsOneRule ==
    (pc = "done" /\ input = <<45, 45, 45, 10>>) =>
        /\ Occurrences(output, TAG_HR) = 1
        /\ \A i \in 1..Len(output) : output[i] # 45

\* `---` LF parsed to the end: <p><hr> LF
C12_Witness ==
    /\ pc = "done"
    /\ input = <<45, 45, 45, 10>>
    /\ output = TAG_P_O \o TAG_HR \o <<10>>
    /\ tags = <<"<p>", "<hr>">>

(***************************************************************************)
(* C13: when the input ends inside an unterminated inline code span (one   *)
(* backtick, then content bytes, no closing backtick) the content is       *)
(* dropped: the returned output holds the tags written and nothing else.   *)
(***************************************************************************)
\* s is a backtick followed by one or more literal-class bytes
IsOpenCodeSpan(s) ==
    /\ Len(s) >= 2
    /\ s[1] = 96
    /\ \A i \in 2..Len(s) : IsLiteral(s[i])

RECURSIVE TagsBytes(_)
TagsBytes(ts) ==
    IF ts = <<>> THEN <<>> ELSE TagBytes(Head(ts)) \o TagsBytes(Tail(ts))

C13_OpenCodeSpanContentDropped ==
    (pc = "done" /\ IsOpenCodeSpan(input)) => output = TagsBytes(tags)

(***************************************************************************)
(* C14: no data loss on malformed links: whenever the Link or Image frame  *)
(* on top of the stack is given up before its `)`, the step writes the raw *)
(* text the frame had consumed, `[`, the alt bytes, `]` if it was read,    *)
(* `(` and the url bytes if they were read, and then the terminating byte. *)
(***************************************************************************)
RawLink(ld) ==
    <<91>> \o ld.alt
      \o (IF ld.status = Alt(0) THEN <<>> ELSE <<93>>)
      \o (IF ld.status = StLink THEN <<40>> \o ld.link ELSE <<>>)

\* the step pops the Link or Image frame on top without writing its element
LinkGivenUp ==
    /\ pc = "loop" /\ pc' = "loop"
    /\ IsLinkOrImage(current(state_machine))
    /\ Len(state_machine') = Len(state_machine) - 1
    /\ NewTags = <<>>

C14_MalformedLinkReemitted ==
    [][LinkGivenUp =>
          SubSeq(output', Len(output) + 1, Len(output'))
            = RawLink(current(state_machine).ld) \o <<input'[Len(input')]>>]_vars

(***************************************************************************)
(* C15: parse of the empty byte sequence returns the empty byte sequence,  *)
(* and parse wraps no output in an html, head or body element: an output   *)
(* holds no such tag unless the input brought its `<` itself.              *)
(***************************************************************************)
RootTags ==
    {<<60, 104, 116, 109, 108>>, <<60, 104, 101, 97, 100>>, <<60, 98, 111, 100, 121>>}

C15_FragmentNotDocument ==
    pc = "done" =>
        /\ input = <<>> => output = <<>>
        /\ (\A i \in 1..Len(input) : input[i] # 60) =>
              \A t \in RootTags : ~Contains(output, t)

\* the empty input parsed to the end
C15_Witness ==
    /\ pc = "done"
    /\ input = <<>>
    /\ output = <<>>
    /\ state_machine = <<None>>

(***************************************************************************)
(* C16: invocations of parse share no mutable state: with several stream   *)
(* handlers running on separate threads, under every interleaving the      *)
(* locals of each call are what parse run alone has after the bytes it has *)
(* consumed, each handler's result is the result of parse for the bytes    *)
(* that handler passed to it, and calls with equal input return equal      *)
(* output.                                                                 *)
(***************************************************************************)
AfterParse == {"write_len", "write_payload", "returned"}

C17_FramedExchange ==
    \A h \in Handlers :
        /\ conns[h].at \in {"parse"} \cup AfterParse =>
             conns[h].mdbuf = conns[h].payload
        /\ conns[h].at = "returned" =>
             conns[h].tx = to_be_bytes(Len(conns[h].parsed), PS) \o conns[h].parsed

(***************************************************************************)
(* C18: an Escape frame lives for exactly one byte: with Escape on top,    *)
(* the next input byte, whatever its value or class, `^` included, is      *)
(* written to the output as a literal (`<` as &lt;, `>` as &gt;, any other *)
(* byte unchanged), nothing else is written, and the Escape frame is       *)
(* popped, which leaves on top the frame that was there before the         *)
(* backslash.  Stated in its weakest form: what the step writes ends with  *)
(* the literal, and Escape is no longer on top after it.                   *)
(***************************************************************************)
\* the step consumes a byte of the input
Consumes == pc = "loop" /\ pc' = "loop" /\ Len(input') = Len(input) + 1

Consumed == input'[Len(input')]

Written == SubSeq(output', Len(output) + 1, Len(output'))

EscapedLiteral(byte) ==
    CASE byte = 60 -> <<38, 108, 116, 59>>
      [] byte = 62 -> <<38, 103, 116, 59>>
      [] OTHER -> <<byte>>

C18_EscapeLivesOneByte ==
    [][(Consumes /\ current(state_machine).k = "Escape") =>
          /\ Len(Written) >= Len(EscapedLiteral(Consumed))
          /\ SubSeq(Written, Len(Written) - Len(EscapedLiteral(Consumed)) + 1,
                    Len(Written)) = EscapedLiteral(Consumed)
          /\ current(state_machine').k # "Escape"]_vars

(***************************************************************************)
(* C19: `_` toggles underline open and close: every `_` that pushes an     *)
(* Underscore frame (at Root, in Paragraph, Header, Indent, Italic or      *)
(* Bold) writes <u>, the next `_` seen with Underscore on top writes </u>  *)
(* and pops it, and parse of `_a_` returns <p><u>a</u></p>.                *)
(***************************************************************************)
UnderlineHosts == {"None", "Paragraph", "Header", "Intendation", "Italic", "Bold"}

C19_UnderscoreToggles ==
    [][/\ (Consumes /\ Consumed = 95 /\ current(state_machine).k \in UnderlineHosts) =>
            /\ current(state_machine') = Underscore
            /\ NewTags # <<>>
            /\ NewTags[Len(NewTags)] = "<u>"
       /\ (Consumes /\ Consumed = 95 /\ current(state_machine) = Underscore) =>
            /\ NewTags = <<"</u>">>
            /\ state_machine' = fall(state_machine)
       /\ (pc' = "done" /\ input' = <<95, 97, 95>>) =>
            output' = TAG_P_O \o TAG_U_O \o <<97>> \o TAG_U_C \o TAG_P_C]_vars

(***************************************************************************)
(* C20: a header opens its tag on the first content byte: when the top     *)
(* frame is Header with the tag not yet opened and a literal-class byte    *)
(* arrives, <hN> is written before that byte; so every </hN> written on a  *)
(* later newline is preceded by its <hN>.                                  *)
(***************************************************************************)
C20_HeaderOpensOnContent ==
    [][(/\ Consumes
        /\ IsLiteral(Consumed)
        /\ current(state_machine).k = "Header"
        /\ ~current(state_machine).p) =>
          /\ NewTags = <<HName(current(state_machine).n, TRUE)>>
          /\ Written = <<60, 104, current(state_machine).n + 48, 62, Consumed>>]_vars

(***************************************************************************)
(* C21: the level of every Header frame is within 1..6 in every reachable  *)
(* state: a `#` at a Header of level n < 6 raises the level to n + 1, a    *)
(* `#` at level 6 leaves the frame, the stack and the output unchanged,    *)
(* and the digit written in <hN> and </hN> is always one of 1..6.          *)
(***************************************************************************)
HeaderTags == {HName(n, open) : n \in 0..255, open \in BOOLEAN}
HeaderTags1to6 == {HName(n, open) : n \in 1..6, open \in BOOLEAN}

HeaderLevelsInRange ==
    /\ \A i \in 1..Len(state_machine) :
         state_machine[i].k = "Header" => state_machine[i].n \in 1..6
    /\ \A i \in 1..Len(tags) : tags[i] \in HeaderTags => tags[i] \in HeaderTags1to6

HashAtHeader ==
    (Consumes /\ Consumed = 35 /\ current(state_machine).k = "Header") =>
        LET c == current(state_machine) IN
        /\ output' = output
        /\ tags' = tags
        /\ state_machine' =
             IF c.n < 6
             THEN [state_machine EXCEPT ![Len(state_machine)] = Header(c.n + 1, c.p)]
             ELSE state_machine

C21_HeaderLevelCapped == []HeaderLevelsInRange /\ [][HashAtHeader]_vars

\* seven `#`: the seventh arrived at level 6 and changed nothing
C21_Witness ==
    /\ pc = "loop"
    /\ input = <<35, 35, 35, 35, 35, 35, 35>>
    /\ state_machine = <<None, Header(6, FALSE)>>
    /\ output = <<>>

(***************************************************************************)
(* C22: a space arriving while a Link frame is in the url status appends   *)
(* %20 to the frame's url buffer and writes nothing to the output, so the  *)
(* href of the anchor written at `)` holds %20 where the space was.        *)
(***************************************************************************)
C22_SpaceInUrlIsBuffered ==
    [][(/\ Consumes
        /\ Consumed = 32
        /\ current(state_machine).k = "Link"
        /\ current(state_machine).ld.status = StLink) =>
          /\ Written = <<>>
          /\ state_machine' =
               [state_machine EXCEPT
                  ![Len(state_machine)].ld.link = @ \o <<37, 50, 48>>]]_vars

(***************************************************************************)
(* C23: while a Link or Image frame is the top frame, every byte that      *)
(* neither finalizes the construct nor aborts it is appended to the        *)
(* frame's alt or url buffer and leaves the output unchanged, for Link and *)
(* for Image alike.  Stated for the steps after which the same frame is    *)
(* still on top in the same status; the space in the url of a Link, which  *)
(* is encoded, is left to C22.                                             *)
(***************************************************************************)
StaysInLink ==
    /\ Consumes
    /\ IsLinkOrImage(current(state_machine))
    /\ Len(state_machine') = Len(state_machine)
    /\ current(state_machine').k = current(state_machine).k
    /\ current(state_machine').ld.status = current(state_machine).ld.status
    /\ ~(/\ Consumed = 32
         /\ current(state_machine).k = "Link"
         /\ current(state_machine).ld.status = StLink)

C23_LinkBytesAreBuffered ==
    [][StaysInLink =>
          LET ld == current(state_machine).ld
              ld2 == current(state_machine').ld
          IN  /\ Written = <<>>
              /\ \/ ld2.alt = Append(ld.alt, Consumed) /\ ld2.link = ld.link
                 \/ ld2.link = Append(ld.link, Consumed) /\ ld2.alt = ld.alt]_vars

(***************************************************************************)
(* C24: every byte routed into an Indent frame's buffer is later written   *)
(* to the output, also when the Indent frame is closed at end of input.    *)
(* Stated in its weakest form: when parse returns, no Indent frame is left *)
(* holding bytes that were never written.                                  *)
(***************************************************************************)
C24_IndentBufferIsFlushed ==
    pc = "done" =>
        \A i \in 1..Len(state_machine) :
            state_machine[i].k = "Intendation" => state_machine[i].inner = <<>>

(***************************************************************************)
(* C25: a CR or LF arriving while the top frame is a horizontal rule with  *)
(* a dash count of 2 or more writes <hr> and the newline byte and pops the *)
(* rule frame, for a count of exactly 2 as for 3 and above.                *)
(***************************************************************************)
C25_RuleOfTwoDashes ==
    [][(/\ Consumes
        /\ Consumed \in {10, 13}
        /\ current(state_machine).k = "Hor"
        /\ current(state_machine).n >= 2) =>
          /\ NewTags = <<"<hr>">>
          /\ Written = TAG_HR \o <<Consumed>>
          /\ Len(state_machine') < Len(state_machine)]_vars

(***************************************************************************)
(* C26: a CR or LF arriving while the top frame is an inline code span     *)
(* (marker count 1) closes the span and unwinds to Root: after the step    *)
(* the stack is Root only, </p> has been written once for every Paragraph  *)
(* frame popped, and the closing tag of every other popped frame that had  *)
(* written an opening tag, the indent div for one, has been written too.   *)
(* Stated for the Paragraph and the Indent frames.                         *)
(***************************************************************************)
FramesOfKind(sm, kind) == Cardinality({i \in 1..Len(sm) : sm[i].k = kind})

C26_NewlineInCodeSpanUnwinds ==
    [][(/\ Consumes
        /\ Consumed \in {10, 13}
        /\ current(state_machine).k = "Code"
        /\ current(state_machine).n = 1) =>
          /\ state_machine' = <<None>>
          /\ Count(NewTags, "</p>") = FramesOfKind(state_machine, "Paragraph")
          /\ Count(NewTags, "</int>") = FramesOfKind(state_machine, "Intendation")]_vars

(***************************************************************************)
(* C27: backtick runs open and close code consistently: a code closing tag *)
(* is written only for a Code frame that has written the opening tag of    *)
(* the same kind, never for a run of backticks with no content and never   *)
(* the block closer for an inline span.  Stated on the tags written: each  *)
(* code closing tag has an opening tag of its kind before it that is not   *)
(* yet closed.                                                             *)
(***************************************************************************)
OpenBefore(ts, i, opener, closer) ==
    Count(SubSeq(ts, 1, i - 1), opener) > Count(SubSeq(ts, 1, i - 1), closer)

C27_CodeClosesWhatItOpened ==
    \A i \in 1..Len(tags) :
        /\ tags[i] = "</codei>" => OpenBefore(tags, i, "<codei>", "</codei>")
        /\ tags[i] = "</codeb>" => OpenBefore(tags, i, "<codeb>", "</codeb>")

(***************************************************************************)
(* C28: a deferred `!` is never lost or reordered: with Exclamation on     *)
(* top, a `[` turns the frame into Image and writes no `!`; every other    *)
(* next byte, `^` and another `!` included, and the end of the input,      *)
(* writes a literal `!` before whatever else it writes, and the            *)
(* Exclamation frame is gone after that byte (after another `!` a new one  *)
(* is pending).                                                            *)
(***************************************************************************)
C28_DeferredExclamation ==
    [][/\ (Consumes /\ current(state_machine) = Exclamation /\ Consumed = 91) =>
            /\ current(state_machine').k = "Image"
            /\ Written = <<>>
       /\ (Consumes /\ current(state_machine) = Exclamation /\ Consumed # 91) =>
            /\ Written # <<>>
            /\ Written[1] = 33
            /\ Consumed # 33 => current(state_machine') # Exclamation
       /\ (pc = "loop" /\ pc' = "done" /\ current(state_machine) = Exclamation) =>
            /\ Written # <<>>
            /\ Written[1] = 33]_vars

(***************************************************************************)
(* C29: a `#` arriving when the top frame is neither Root, Indent nor      *)
(* Header is a literal: it is written to the output exactly once, or       *)
(* appended exactly once to the alt or url buffer of a Link or Image, and  *)
(* no byte absent from the input is written with it; also at a Code frame  *)
(* with a pending marker count other than 1 or 3 and at a Link that has    *)
(* seen `]`, where the `#` ends the link and follows its raw text.         *)
(***************************************************************************)
C29_HashIsLiteralElsewhere ==
    [][(/\ Consumes
        /\ Consumed = 35
        /\ current(state_machine).k \notin {"None", "Intendation", "Header"}) =>
          LET c == current(state_machine) IN
          IF IsLinkOrImage(c)
          THEN \/ /\ Written = <<>>
                  /\ Len(state_machine') = Len(state_machine)
                  /\ LET ld2 == current(state_machine').ld IN
                       \/ ld2.alt = Append(c.ld.alt, 35) /\ ld2.link = c.ld.link
                       \/ ld2.link = Append(c.ld.link, 35) /\ ld2.alt = c.ld.alt
               \/ /\ Len(state_machine') < Len(state_machine)
                  /\ Written = RawLink(c.ld) \o <<35>>
          ELSE Count(Written, 35) = 1]_vars

(***************************************************************************)
(* C30: a second consecutive `*` upgrades emphasis in place: when `*`      *)
(* arrives at an Italic frame whose marker was just seen, the frame is     *)
(* replaced by Bold without push or pop, the frames below unchanged, and   *)
(* <b> is written with no <i> written for it; with Bold on top the first   *)
(* `*` of a closing pair is remembered and the second writes </b> and pops *)
(* exactly that frame.                                                     *)
(***************************************************************************)
StarAt(f) == Consumes /\ Consumed = 42 /\ current(state_machine) = f

C30_SecondStarUpgradesInPlace ==
    [][/\ StarAt(Italic(TRUE)) =>
            /\ state_machine' =
                 [state_machine EXCEPT ![Len(state_machine)] = Bold(FALSE)]
            /\ NewTags = <<"<b>">>
            /\ Written = TAG_B_O
       /\ StarAt(Bold(FALSE)) =>
            /\ state_machine' =
                 [state_machine EXCEPT ![Len(state_machine)] = Bold(TRUE)]
            /\ Written = <<>>
       /\ StarAt(Bold(TRUE)) =>
            /\ state_machine' = SubSeq(state_machine, 1, Len(state_machine) - 1)
            /\ NewTags = <<"</b>">>
            /\ Written = TAG_B_C
       \* an Italic frame whose marker was just seen has written no <i>:
       \* no step leaves one on top having written <i>, and none turns a
       \* frame that has written it back into one
       /\ (Consumes /\ current(state_machine') = Italic(TRUE)) =>
            \A i \in DOMAIN NewTags : NewTags[i] # "<i>"
       /\ \A k \in DOMAIN state_machine :
            (state_machine[k] = Italic(FALSE) /\ k \in DOMAIN state_machine')
                => state_machine'[k] # Italic(TRUE)]_vars

\* `**a**` up to its last byte: Italic switched to Bold, Bold closed and popped
C30_Witness ==
    /\ pc = "loop"
    /\ input = <<42, 42, 97, 42, 42>>
    /\ state_machine = <<None, Paragraph>>
    /\ tags = <<"<p>", "<b>", "</b>">>
    /\ output = TAG_P_O \o TAG_B_O \o <<97>> \o TAG_B_C

(***************************************************************************)
(* C31: the level digit in a header's closing tag equals the digit in its  *)
(* opening tag: whenever </hN> is written for a Header frame whose <hM>    *)
(* was written, N = M, also when further `#` bytes arrive after the        *)
(* opening tag.                                                            *)
(***************************************************************************)
HeaderOpenTags == {HName(n, TRUE) : n \in 0..255}
HeaderCloseTags == {HName(n, FALSE) : n \in 0..255}

\* the opening tag of the header that the closing tag at i closes, if any
OpenHeaderAt(ts, i) ==
    {j \in 1..(i - 1) :
        /\ ts[j] \in HeaderOpenTags
        /\ \A l \in (j + 1)..(i - 1) : ts[l] \notin HeaderCloseTags}

C31_HeaderTagsAgree ==
    \A i \in 1..Len(tags) : \A n \in 0..255 :
        tags[i] = HName(n, FALSE) =>
            \A j \in OpenHeaderAt(tags, i) : tags[j] = HName(n, TRUE)

(***************************************************************************)
(* C32: each <ul> written to the output is followed by exactly one </ul>   *)
(* before the next <ul> or the end of the output, and each <li> by exactly *)
(* one </li>; also when the list is ended by a lone `-` line, by a         *)
(* non-list byte, or by end of input without a trailing newline.           *)
(***************************************************************************)
\* the index of the next opener after i, or one past the end
NextOpener(ts, i, opener) ==
    LET later == {j \in (i + 1)..Len(ts) : ts[j] = opener} IN
    IF later = {} THEN Len(ts) + 1
    ELSE CHOOSE j \in later : \A l \in later : j <= l

ClosedOnce(ts, opener, closer) ==
    \A i \in 1..Len(ts) :
        ts[i] = opener =>
            Count(SubSeq(ts, i + 1, NextOpener(ts, i, opener) - 1), closer) = 1

C32_ListTagsBalanced ==
    pc = "done" =>
        /\ ClosedOnce(tags, "<ul>", "</ul>")
        /\ ClosedOnce(tags, "<li>", "</li>")

(***************************************************************************)
(* C33: <p> tags and Paragraph frames correspond one to one: <p> is        *)
(* written exactly when a Paragraph frame is put on the stack and </p>     *)
(* exactly when one is removed; hence the number of unclosed <p> in the    *)
(* output always equals the number of Paragraph frames on the stack.       *)
(* Stated in its weakest form, the count, over the states of the loop.     *)
(***************************************************************************)
C33_ParagraphTagsMatchFrames ==
    pc = "loop" => UnclosedP(tags) = FramesOfKind(state_machine, "Paragraph")

(***************************************************************************)
(* C34: each Bold frame writes its opening tag <b> exactly once during its *)
(* life: no byte arriving while Bold is on top (in particular a space      *)
(* after a single `*` inside the bold text) writes a second <b>.           *)
(* Every Bold frame is created by a step that writes <b>, so a step that   *)
(* starts with Bold on top and writes <b> writes a second one.             *)
(***************************************************************************)
C34_BoldOpensOnce ==
    [][(Consumes /\ current(state_machine).k = "Bold") =>
            \A i \in DOMAIN NewTags : NewTags[i] # "<b>"]_vars

(***************************************************************************)
(* C35: one opening `*` yields at most one <i>: when `_` arrives at an     *)
(* Italic frame whose marker was just seen, <i> is written once and the    *)
(* pending Italic frame itself becomes the open italic; no second Italic   *)
(* frame is pushed above it.                                               *)
(***************************************************************************)
C35_UnderscoreAtPendingItalic ==
    [][(Consumes /\ Consumed = 95 /\ current(state_machine) = Italic(TRUE)) =>
            /\ Count(NewTags, "<i>") = 1
            /\ FramesOfKind(state_machine', "Italic")
                 = FramesOfKind(state_machine, "Italic")
            /\ state_machine'[Len(state_machine)] = Italic(FALSE)]_vars

(***************************************************************************)
(* C36: pass-through bytes keep their input order: for every input with no *)
(* `[`, the input bytes copied to the output unchanged appear in the       *)
(* output in the same relative order as in the input; no deferred `!`,     *)
(* buffered indent newline or other held byte is written after a byte that *)
(* came later in the input.                                                *)
(* Judged on bytes that no tag contains and that occur once in the input   *)
(* and once in the output, so that the output byte is the input byte.      *)
(***************************************************************************)
\* bytes of the alphabet that occur in no tag the code writes
MarkBytes == {10, 33, 94}

PositionsOf(seq, x) == {i \in 1..Len(seq) : seq[i] = x}

PositionOf(seq, x) == CHOOSE i \in PositionsOf(seq, x) : TRUE

CopiedOnce(x) ==
    /\ x \in MarkBytes
    /\ Cardinality(PositionsOf(input, x)) = 1
    /\ Cardinality(PositionsOf(output, x)) = 1

C36_PassThroughKeepsOrder ==
    (\A i \in 1..Len(input) : input[i] # 91) =>
        \A x, y \in MarkBytes :
            (/\ CopiedOnce(x)
             /\ CopiedOnce(y)
             /\ PositionOf(input, x) < PositionOf(input, y))
                => PositionOf(output, x) < PositionOf(output, y)

(***************************************************************************)
(* C37: the 8-bit dash counter of the rule frame never overflows or wraps: *)
(* for every run of n >= 3 `-` bytes at the start of a line followed by    *)
(* LF, n >= 256 included, the step of each dash completes without error,   *)
(* the counter stays >= 2, and the newline writes exactly one <hr>.        *)
(***************************************************************************)
AllDashes(seq) == \A i \in 1..Len(seq) : seq[i] = 45

DashLine(seq) ==
    /\ Len(seq) >= 4
    /\ seq[Len(seq)] = 10
    /\ AllDashes(SubSeq(seq, 1, Len(seq) - 1))

C37_DashCounterNeverWraps ==
    /\ AllDashes(input) => pc # "panicked"
    /\ \A i \in 1..Len(state_machine) :
         state_machine[i].k = "Hor" => state_machine[i].n >= 2
    /\ (pc = "done" /\ DashLine(input)) => Occurrences(output, TAG_HR) = 1

(***************************************************************************)
(* C38: in every reachable state every Code frame on the stack has a       *)
(* marker count within 1..5, and a Code frame whose pending-marker flag is *)
(* false has a count of exactly 1 or 3; so the 8-bit increment of the      *)
(* count on a backtick never overflows, for any number of backticks.       *)
(* (The count 6 exists only inside the step that pops the frame.)          *)
(***************************************************************************)
CodeFrames(sm) == {i \in 1..Len(sm) : sm[i].k = "Code"}

C38_CodeCountInRange ==
    \A i \in CodeFrames(state_machine) :
        /\ state_machine[i].n \in 1..5
        /\ ~state_machine[i].ls => state_machine[i].n \in {1, 3}
        /\ state_machine[i].n + 1 <= 255

\* five backticks after an opened block: one more pops the frame
C38_Witness ==
    /\ pc = "loop"
    /\ input = <<96, 96, 96, 97, 96, 96>>
    /\ current(state_machine) = Code(TRUE, 5)
    /\ tags = <<"<p>", "<codeb>">>

(***************************************************************************)
(* C39: in every reachable state the frame directly below every UList      *)
(* frame and every Hor frame is a Paragraph frame, and the frame directly  *)
(* below every LItem frame is a UList frame with its list-opened flag set; *)
(* so each double fall in the list and rule arms pops exactly the list or  *)
(* rule frame and its own Paragraph, never Root or an unrelated frame.     *)
(***************************************************************************)
ListFramesSitOnTheirHosts ==
    \A i \in 1..Len(state_machine) :
        /\ state_machine[i].k \in {"UList", "Hor"} =>
             i > 1 /\ state_machine[i - 1] = Paragraph
        /\ state_machine[i].k = "LItem" =>
             /\ i > 1
             /\ state_machine[i - 1].k = "UList"
             /\ state_machine[i - 1].written

\* a step that falls from a list or rule frame has a Paragraph and Root below it
DoubleFallPopsOwnParagraph ==
    (/\ Consumes
     /\ current(state_machine).k \in {"UList", "Hor"}
     /\ Len(state_machine') < Len(state_machine))
        => /\ Len(state_machine) >= 3
           /\ state_machine[Len(state_machine) - 1] = Paragraph
           /\ Len(state_machine') >= 1
           /\ state_machine'[1] = None

C39_ListFramesAbove ==
    []ListFramesSitOnTheirHosts /\ [][DoubleFallPopsOwnParagraph]_vars

\* `- a`, newline, then a lone `-` line: the list frame and its Paragraph gone
C39_Witness ==
    /\ pc = "loop"
    /\ input = <<45, 32, 97, 10, 45, 10>>
    /\ state_machine = <<None>>
    /\ tags = <<"<p>", "<ul>", "<li>", "</li>", "</p>">>

====
